---- MODULE Spec2Model ----
(***************************************************************************)
(* Model of the ecoSynthesIA document-analysis service (ia_service):       *)
(* the POST /api/analyze-document endpoint, the RAG retrieval and the two  *)
(* pipelines it drives, the extraction validation, the MLflow monitor, the *)
(* model validation script and the DistilBERT category predictor.          *)
(*                                                                         *)
(* Text is modelled as sequences of one-character strings.  Scores         *)
(* (confidence, ROUGE, accuracy) are integers in hundredths.               *)
(***************************************************************************)
EXTENDS Integers, Sequences, FiniteSets, TLC

(***************************************************************************)
(* Python str helpers                                                      *)
(***************************************************************************)
UpperChars == <<"A","B","C","D","E","F","G","H","I","J","K","L","M",
                "N","O","P","Q","R","S","T","U","V","W","X","Y","Z">>

LowerChars == <<"a","b","c","d","e","f","g","h","i","j","k","l","m",
                "n","o","p","q","r","s","t","u","v","w","x","y","z">>

Digits == <<"0","1","2","3","4","5","6","7","8","9">>

Whitespace == {" ", "\t", "\n"}

\* str.lower() on one character
LowerChar(c) ==
    IF \E i \in 1..Len(UpperChars) : UpperChars[i] = c
    THEN LowerChars[CHOOSE i \in 1..Len(UpperChars) : UpperChars[i] = c]
    ELSE c

\* str.lower()
Lower(s) == [i \in 1..Len(s) |-> LowerChar(s[i])]

IsDigitChar(c) == \E i \in 1..Len(Digits) : Digits[i] = c

\* int(c) for one decimal digit
DigitVal(c) == (CHOOSE i \in 1..Len(Digits) : Digits[i] = c) - 1

\* str.isdigit(): non-empty and every character a digit
IsDigitStr(s) == Len(s) > 0 /\ \A i \in 1..Len(s) : IsDigitChar(s[i])

\* re.search(r'\d', s)
HasDigit(s) == \E i \in 1..Len(s) : IsDigitChar(s[i])

\* int(s) for a string of decimal digits
RECURSIVE ParseInt(_)
ParseInt(s) ==
    IF Len(s) = 0 THEN 0
    ELSE 10 * ParseInt(SubSeq(s, 1, Len(s) - 1)) + DigitVal(s[Len(s)])

\* str.strip()
Strip(s) ==
    LET keep == {i \in 1..Len(s) : s[i] \notin Whitespace}
    IN  IF keep = {} THEN <<>>
        ELSE LET lo == CHOOSE i \in keep : \A j \in keep : i <= j
                 hi == CHOOSE i \in keep : \A j \in keep : i >= j
             IN  SubSeq(s, lo, hi)

\* str.replace(c, '') for a one-character pattern
RemoveChar(s, c) == SelectSeq(s, LAMBDA x : x # c)

\* needle in haystack
Contains(hay, needle) ==
    \E i \in 1..(Len(hay) - Len(needle) + 1) :
        SubSeq(hay, i, i + Len(needle) - 1) = needle

\* Python None where a str is expected (a sequence no text can equal)
None == <<"<None>">>

\* Python truthiness of an Optional[str]
Truthy(s) == s # None /\ Len(s) > 0

s_data_not_provided ==
    <<"d","a","t","a"," ","n","o","t"," ","p","r","o","v","i","d","e","d">>
s_not_available == <<"n","o","t"," ","a","v","a","i","l","a","b","l","e">>
s_na == <<"n","/","a">>
s_unknown == <<"u","n","k","n","o","w","n">>
s_tbd == <<"t","b","d">>
s_to_be_determined ==
    <<"t","o"," ","b","e"," ","d","e","t","e","r","m","i","n","e","d">>
s_table_of_contents ==
    <<"t","a","b","l","e"," ","o","f"," ","c","o","n","t","e","n","t","s">>
s_list_of_figures ==
    <<"l","i","s","t"," ","o","f"," ","f","i","g","u","r","e","s">>
s_abbreviations == <<"a","b","b","r","e","v","i","a","t","i","o","n","s">>

(***************************************************************************)
(* Configuration constants (src/config.py and the pipelines)               *)
(***************************************************************************)
\* MIN_CONFIDENCE_THRESHOLD_DATA = 0.3, in hundredths
MIN_CONFIDENCE_THRESHOLD_DATA == 30

\* ExtractedDataPoint.confidence_score default 0.5, in hundredths
DefaultConfidence == 50

\* len(key) < 10 in _validate_and_filter_extractions
MinKeyLen == 10

ChartTypes == {"LineChart", "BarChart", "PieChart", "ChoroplethMap", "Unknown"}

(***************************************************************************)
(* Page values: Union[int, str]                                            *)
(***************************************************************************)
PageInt(n) == [t |-> "int", n |-> n, s |-> <<>>]
PageStr(s) == [t |-> "str", n |-> 0, s |-> s]
PageNone == [t |-> "none", n |-> 0, s |-> <<>>]

(***************************************************************************)
(* tasks/data_extraction/chain.py                                          *)
(***************************************************************************)
suspicious_keywords == {s_table_of_contents, s_list_of_figures, s_abbreviations}

\* mutant: the key-length rule is left out
PointPassesFilter_any_key(point) ==
    LET key == Lower(point.key)
        value == Strip(point.value)
        unit == point.unit
    IN  /\ ~(Len(value) = 0 \/ Lower(value) = s_data_not_provided)
        /\ ~(\E keyword \in suspicious_keywords : Contains(key, keyword))
        /\ ~(IsDigitStr(RemoveChar(RemoveChar(value, "."), ",")) /\ ~Truthy(unit))

\* One iteration of the loop of _validate_and_filter_extractions: TRUE when the
\* point is appended to validated_points.  A raw point is the JSON dict the
\* formatting model produced; value holds str(point.get("value", "")).
PointPassesFilter(point) ==
    LET key == Lower(point.key)
        value == Strip(point.value)
        unit == point.unit
    IN  /\ ~(Len(key) < MinKeyLen)
        /\ ~(Len(value) = 0 \/ Lower(value) = s_data_not_provided)
        /\ ~(\E keyword \in suspicious_keywords : Contains(key, keyword))
        /\ ~(IsDigitStr(RemoveChar(RemoveChar(value, "."), ",")) /\ ~Truthy(unit))

\* point.get("key", "").lower() raises AttributeError when the key is null
FilterRaises(points) == \E i \in 1..Len(points) : points[i].key = None

_validate_and_filter_extractions(points) == SelectSeq(points, PointPassesFilter)

\* ExtractedDataPoint(**point): the pydantic object with its defaults applied
ToDataPoint(point) ==
    [key |-> point.key,
     value |-> point.value,
     unit |-> point.unit,
     page |-> point.page,
     confidence_score |-> IF point.hasConf THEN point.conf ELSE DefaultConfidence,
     chart_type |-> point.chart_type,
     indicator_category |-> point.indicator_category]

\* invoke_extraction_chain on what the two-model chain produced.
\*   tag "raise":  chain.invoke, the filter or ExtractionResult(**result) raised
\*   tag "list":   the parser returned a non-dict, handed back unchanged
\*   tag "result": an ExtractionResult
invoke_extraction_chain(out) ==
    CASE out.kind \in {"llm_error", "text"} ->
            [tag |-> "raise", points |-> <<>>]
      [] out.kind = "array" ->
            [tag |-> "list", points |-> <<>>]
      [] out.kind = "object" /\ ~out.hasPoints ->
            [tag |-> "result", points |-> <<>>]
      [] OTHER ->
            IF FilterRaises(out.points)
            THEN [tag |-> "raise", points |-> <<>>]
            ELSE LET validated == _validate_and_filter_extractions(out.points)
                 IN  IF \E i \in 1..Len(validated) : ~validated[i].wellTyped
                     THEN [tag |-> "raise", points |-> <<>>]
                     ELSE [tag |-> "result",
                           points |-> [i \in 1..Len(validated) |->
                                          ToDataPoint(validated[i])]]

(***************************************************************************)
(* tasks/data_extraction/logic.py                                          *)
(***************************************************************************)
no_data_patterns == {s_data_not_provided, s_not_available, s_na,
                     s_unknown, s_tbd, s_to_be_determined}

\* mutant: any value that is neither blank nor a no-data marker counts
_has_quantifiable_value_any_text(value) ==
    IF Len(value) = 0 \/ Strip(value) = <<>> THEN FALSE
    ELSE IF Strip(Lower(value)) \in no_data_patterns THEN FALSE
    ELSE TRUE

_has_quantifiable_value(value) ==
    IF Len(value) = 0 \/ Strip(value) = <<>> THEN FALSE
    ELSE IF Strip(Lower(value)) \in no_data_patterns THEN FALSE
    ELSE HasDigit(value)

\* _clean_value_and_unit: the cleaned value (the unit is returned unchanged)
CleanValue(value, unit) ==
    IF value = s_data_not_provided THEN value
    ELSE IF Truthy(unit) /\ Lower(unit) \in {<<"u","s","d">>, <<"$">>, <<"%">>, <<"EUR_SIGN">>}
         THEN Strip(RemoveChar(RemoveChar(RemoveChar(Strip(value), "$"),
                                          "EUR_SIGN"), "%"))
         ELSE Strip(value)

\* the page normalisation at the end of the validation loop
CleanPage(page) ==
    IF page.t = "str" /\ IsDigitStr(page.s) THEN PageInt(ParseInt(page.s))
    ELSE page

\* mutant: the confidence test is left out
PointIsKept_no_threshold(point) == _has_quantifiable_value(point.value)

PointIsKept(point) ==
    /\ _has_quantifiable_value(point.value)
    /\ ~(point.confidence_score < MIN_CONFIDENCE_THRESHOLD_DATA)

CleanPoint(point) ==
    [point EXCEPT !.value = CleanValue(point.value, point.unit),
                  !.page = CleanPage(point.page)]

validate_and_clean_extracted_data(points) ==
    LET kept == SelectSeq(points, PointIsKept)
    IN  [i \in 1..Len(kept) |-> CleanPoint(kept[i])]

(***************************************************************************)
(* orchestration/service.py, process_document_for_data_extraction from the *)
(* chain invocation to the return                                          *)
(***************************************************************************)
chart_type_mapping(chart_type) ==
    CASE chart_type = "LineChart" -> "line"
      [] chart_type = "BarChart" -> "bar"
      [] chart_type = "PieChart" -> "pie"
      [] chart_type = "ChoroplethMap" -> "choropleth"
      [] OTHER -> "None"

ToApiDict(point) ==
    [key |-> point.key,
     value |-> point.value,
     unit |-> point.unit,
     page |-> IF point.page = PageStr(s_unknown) THEN PageNone ELSE point.page,
     confidence_score |-> point.confidence_score,
     chart_type |-> chart_type_mapping(point.chart_type),
     indicator_category |-> point.indicator_category]

\* An exception is its class and str(e); a message is its text and length.
NoMessage == [text |-> "none", len |-> 0]

NoException == [type |-> "none", msg |-> NoMessage]

\* result_dict["extracted_points"] as _validate_and_filter_extractions leaves
\* it, when the chain's output is a dict with points and the filter completes
FilteredPoints(out) ==
    IF out.kind = "object" /\ out.hasPoints /\ ~FilterRaises(out.points)
    THEN _validate_and_filter_extractions(out.points)
    ELSE <<>>

\* mutant: an exception of invoke_extraction_chain is not caught
ExtractionOutcome_uncaught(out) ==
    LET raw == invoke_extraction_chain(out)
    IN  CASE raw.tag = "raise" ->
                [exc |-> [type |-> "Exception",
                          msg |-> [text |-> "chain_error", len |-> 11]],
                 returned |-> FALSE, counted |-> FALSE, data |-> <<>>,
                 validated_points |-> <<>>]
          [] raw.tag = "list" ->
                [exc |-> [type |-> "AttributeError",
                          msg |-> [text |-> "list_has_no_extracted_points",
                                   len |-> 51]],
                 returned |-> FALSE, counted |-> FALSE, data |-> <<>>,
                 validated_points |-> <<>>]
          [] OTHER ->
                LET final == validate_and_clean_extracted_data(raw.points)
                IN  [exc |-> NoException, returned |-> TRUE, counted |-> TRUE,
                     data |-> [i \in 1..Len(final) |-> ToApiDict(final[i])],
                     validated_points |-> FilteredPoints(out)]

\* What process_document_for_data_extraction does with the chain's output:
\* the list it returns (with the points the filter kept on the way), or the
\* exception that leaves it.
ExtractionOutcome(out) ==
    LET raw == invoke_extraction_chain(out)
    IN  CASE raw.tag = "raise" ->
                \* except Exception: return [] (log_extraction_count is skipped)
                [exc |-> NoException, returned |-> TRUE, counted |-> FALSE,
                 data |-> <<>>, validated_points |-> FilteredPoints(out)]
          [] raw.tag = "list" ->
                \* validate_and_clean_extracted_data reads .extracted_points of a list
                [exc |-> [type |-> "AttributeError",
                          msg |-> [text |-> "list_has_no_extracted_points",
                                   len |-> 51]],
                 returned |-> FALSE, counted |-> FALSE, data |-> <<>>,
                 validated_points |-> <<>>]
          [] OTHER ->
                LET final == validate_and_clean_extracted_data(raw.points)
                IN  [exc |-> NoException, returned |-> TRUE, counted |-> TRUE,
                     data |-> [i \in 1..Len(final) |-> ToApiDict(final[i])],
                     validated_points |-> FilteredPoints(out)]


(***************************************************************************)
(* Bounds of the model                                                     *)
(***************************************************************************)
\* requests handled by the service in one run of the model
MaxRequests == 1

\* document ids range over 1..MaxDocId
MaxDocId == 2

\* points in one output of the formatting model
MaxPoints == 2

DocIds == 1..MaxDocId

(***************************************************************************)
(* State                                                                   *)
(***************************************************************************)
VARIABLES
    pc,                 \* position of the endpoint handler
    request,            \* AnalyzeDocumentRequest being served
    absolute_file_path, \* result of get_absolute_file_path
    fs,                 \* the files on disk, by absolute path
    store,              \* chunks held by the Chroma collection, in insertion order
    VECTOR_STORE,       \* vectorstore.VECTOR_STORE: "None" or "Chroma"
    EMBEDDING_MODEL,    \* embeddings.EMBEDDING_MODEL: 0 (None) or the instance id
    embeddingLoads,     \* how many times HuggingFaceBgeEmbeddings was constructed
    monitor,            \* the AnalysisMonitor of the request
    mlflow,             \* what MLflow has logged for the run of the request
    now,                \* time.time(), in ticks since the request arrived
    exc,                \* the exception propagating out of the current block
    calls,              \* history of the handler's calls, in order
    retrieved_documents,\* chunks of the context handed to the extraction chain
    summary_documents,  \* chunks of the context handed to the summary chain
    extracted_data,     \* return value of process_document_for_data_extraction
    raw_summary,        \* text returned by invoke_summary_chain
    final_summary,      \* post-processed summary
    confidence_input,   \* argument CONFIDENCE_CHAIN.invoke received
    classify_input,     \* argument classify_summary received
    summary_result,     \* return value of process_document_for_summary
    response,           \* HTTP answer of the endpoint
    served,             \* requests answered so far
    formatter_output,   \* output of the formatting model under study
    outcome,            \* ExtractionOutcome of formatter_output
    validation,         \* state of tests/run_model_validation.py
    classifier,         \* state of ml_training/training/load_training_model.py
    ingest,             \* direct calls of ingest_document_with_metadata
    cleaning,           \* direct call of validate_and_clean_extracted_data
    report,             \* benchmark: extract_text_from_report, input and result
    evaluation          \* benchmark: evaluate_data_extraction, input and result

vars == <<pc, request, absolute_file_path, fs, store, VECTOR_STORE,
          EMBEDDING_MODEL, embeddingLoads, monitor, mlflow, now, exc, calls,
          retrieved_documents, summary_documents, extracted_data,
          raw_summary, final_summary, confidence_input, classify_input, summary_result,
          response, served, formatter_output, outcome, validation, classifier,
          ingest, cleaning, report, evaluation>>

serviceVars == <<pc, request, absolute_file_path, fs, store, VECTOR_STORE,
          EMBEDDING_MODEL, embeddingLoads, monitor, mlflow, now, exc, calls,
          retrieved_documents, summary_documents, extracted_data,
          raw_summary, final_summary, confidence_input, classify_input, summary_result,
          response, served>>

benchVars == <<report, evaluation>>

studyVars == <<formatter_output, outcome, ingest, cleaning, benchVars>>


(***************************************************************************)
(* Files and paths (retrieval/utils.py)                                    *)
(***************************************************************************)
\* request.file_path, by the three shapes get_absolute_file_path tells apart:
\* '/app/bucket/a.pdf', 'bucket/a.pdf' and 'b.pdf'
RelPaths == {[form |-> "app", name |-> "a.pdf"],
             [form |-> "bucket", name |-> "a.pdf"],
             [form |-> "plain", name |-> "b.pdf"]}

\* the path get_absolute_file_path builds, before the isfile test: a path
\* under /app is used as it is, the part after 'bucket/' is joined to
\* BUCKET_DIR (/app/bucket), anything else is joined to BASE_DIR
ResolvedPath(relative_path) ==
    CASE relative_path.form = "app" ->
            [dir |-> "/app/bucket", name |-> relative_path.name]
      [] relative_path.form = "bucket" ->
            [dir |-> "/app/bucket", name |-> relative_path.name]
      [] OTHER ->
            [dir |-> "BASE_DIR", name |-> relative_path.name]

AbsPaths == {ResolvedPath(r) : r \in RelPaths}

NoPath == [dir |-> "none", name |-> "none"]

\* "missing": nothing at the path; "dir": a directory; "pdf": a readable PDF;
\* "corrupt": a file that pdfplumber cannot read or that holds no text
FileStates == {"missing", "dir", "pdf", "corrupt"}

\* os.path.exists
exists(path) == path \in DOMAIN fs /\ fs[path] # "missing"

\* os.path.isfile
isfile(path) == path \in DOMAIN fs /\ fs[path] \in {"pdf", "corrupt"}

\* get_absolute_file_path: the path, or the ValueError it raises
get_absolute_file_path(relative_path) ==
    LET absolute_path == ResolvedPath(relative_path)
    IN  IF ~isfile(absolute_path)
        THEN [exc |-> [type |-> "ValueError",
                       msg |-> [text |-> "file_does_not_exist", len |-> 40]],
              path |-> NoPath]
        ELSE [exc |-> NoException, path |-> absolute_path]

\* str(n) for n >= 0
RECURSIVE IntToStr(_)
IntToStr(n) ==
    IF n < 10 THEN <<Digits[n + 1]>>
    ELSE IntToStr(n \div 10) \o <<Digits[(n % 10) + 1]>>

\* The page texts of the two sample reports after splitting: each chunk has
\* its page number and the identity of the first 50 characters of its text.
\* Report b repeats the opening text of report a.
FileChunks(name) ==
    IF name = "a.pdf"
    THEN <<[page |-> 0, head |-> 1], [page |-> 1, head |-> 2],
           [page |-> 4, head |-> 3]>>
    ELSE <<[page |-> 0, head |-> 1], [page |-> 2, head |-> 4]>>

\* pages on which pdfplumber finds tables
FileTablePages(name) == IF name = "a.pdf" THEN <<4>> ELSE <<>>

\* document_id metadata for "no document_id given"
NoDocId == -1

\* the chunks of a readable PDF with the metadata load_and_split_pdf adds
TaggedChunks(file_path, document_id) ==
    LET chunks == FileChunks(file_path.name)
    IN  [i \in 1..Len(chunks) |->
            [page |-> chunks[i].page,
             head |-> chunks[i].head,
             source_file |-> file_path,
             document_id |-> IF document_id # NoDocId
                             THEN IntToStr(document_id) ELSE None]]

\* load_and_split_pdf: every exception, a missing file included, yields []
load_and_split_pdf(file_path, document_id) ==
    IF ~isfile(file_path) \/ fs[file_path] = "corrupt" THEN <<>>
    ELSE TaggedChunks(file_path, document_id)

(***************************************************************************)
(* Retrieval (retrieval/embeddings.py, vectorstore.py, retriever.py)       *)
(***************************************************************************)
\* get_embedding_model: the constructor call sits outside the
\* "if EMBEDDING_MODEL is None" test, so every call constructs an instance.
\* The result is [model, loads]: the new global and the new count.
get_embedding_model(model, loads) ==
    [model |-> loads + 1, loads |-> loads + 1]

\* k in the similarity searches
K_EXTRACTION == 25
K_COVER == 5
K_INTRO == 5
K_TECHNICAL == 4
K_SOCIO == 3
K_PROJECT == 3
MAX_CHUNKS == 20

Take(s, k) == IF Len(s) <= k THEN s ELSE SubSeq(s, 1, k)

\* The similarity order of the candidates for a query: a fixed order that
\* depends on the query.
BySimilarity(candidates, query) ==
    IF Len(candidates) = 0 THEN <<>>
    ELSE LET r == query % Len(candidates)
         IN  SubSeq(candidates, r + 1, Len(candidates)) \o SubSeq(candidates, 1, r)

\* Chroma similarity_search(query, k, filter={"document_id": f})
similarity_search(chunks, query, k, filter) ==
    Take(BySimilarity(SelectSeq(chunks, LAMBDA c : c.document_id = filter), query), k)

\* mutant: the metadata filter is not passed to the search
retrieve_context_unfiltered(chunks, query, k, filter_metadata) ==
    Take(BySimilarity(chunks, query), k)

\* retrieve_context: filtered search when filter_metadata is given, the
\* unfiltered retriever otherwise
retrieve_context(chunks, query, k, filter_metadata) ==
    IF filter_metadata # None
    THEN similarity_search(chunks, query, k, filter_metadata)
    ELSE Take(BySimilarity(chunks, query), k)

\* filter_metadata built by both pipelines
FilterFor(document_id) ==
    IF document_id # NoDocId THEN IntToStr(document_id) ELSE None

Heads(docs) == {docs[i].head : i \in 1..Len(docs)}

\* Append to acc the chunks of docs whose head was not seen, in order
RECURSIVE DedupInto(_, _, _)
DedupInto(acc, seen, docs) ==
    IF Len(docs) = 0 THEN acc
    ELSE IF Head(docs).head \in seen
         THEN DedupInto(acc, seen, Tail(docs))
         ELSE DedupInto(Append(acc, Head(docs)), seen \cup {Head(docs).head},
                        Tail(docs))

SeqRange(s) == {s[i] : i \in 1..Len(s)}

\* process_document_for_data_extraction, from a non-empty retrieval to the
\* truncated context: priority pages first, then the retrieved chunks
ExtractionContext(retrieved, file_path, document_id) ==
    LET table_pages == IF isfile(file_path) /\ fs[file_path] = "pdf"
                       THEN SeqRange(FileTablePages(file_path.name)) ELSE {}
        all_pages == load_and_split_pdf(file_path, document_id)
        priority_pages == {0, 1, 2} \cup table_pages
        candidates == SelectSeq(all_pages, LAMBDA d : d.page \in priority_pages)
        priority_docs == DedupInto(<<>>, Heads(retrieved), candidates)
    IN  priority_docs \o retrieved

\* list.insert(0, doc) for each doc in order
RECURSIVE InsertAllAtFront(_, _, _)
InsertAllAtFront(acc, seen, docs) ==
    IF Len(docs) = 0 THEN acc
    ELSE IF Head(docs).head \in seen
         THEN InsertAllAtFront(acc, seen, Tail(docs))
         ELSE InsertAllAtFront(<<Head(docs)>> \o acc,
                               seen \cup {Head(docs).head}, Tail(docs))

\* process_document_for_summary, from the five searches to the context
SummaryContext(chunks, file_path, document_id) ==
    LET f == FilterFor(document_id)
        cover_chunks == retrieve_context(chunks, 1, K_COVER, f)
        intro_chunks == retrieve_context(chunks, 2, K_INTRO, f)
        technical_chunks == retrieve_context(chunks, 3, K_TECHNICAL, f)
        socio_gov_chunks == retrieve_context(chunks, 4, K_SOCIO, f)
        project_chunks == retrieve_context(chunks, 5, K_PROJECT, f)
        final_chunks == DedupInto(<<>>, {},
            cover_chunks \o intro_chunks \o technical_chunks
                \o socio_gov_chunks \o project_chunks)
        all_pages == load_and_split_pdf(file_path, document_id)
        first_pages_direct == SelectSeq(all_pages, LAMBDA d : d.page < 2)
    IN  InsertAllAtFront(final_chunks, Heads(final_chunks), first_pages_direct)


(***************************************************************************)
(* Monitoring (monitoring.py)                                              *)
(***************************************************************************)
\* d[k] = v on a Python dict
Put(d, k, v) == [x \in (DOMAIN d) \cup {k} |-> IF x = k THEN v ELSE d[x]]

EmptyDict == [x \in {} |-> 0]

\* self.error[:250]
ERROR_TRUNCATION == 250

Truncate(msg, n) == [text |-> msg.text, len |-> IF msg.len < n THEN msg.len ELSE n]

NoMonitor == [started |-> FALSE, start_time |-> 0,
              step_times |-> EmptyDict, metrics |-> EmptyDict,
              error |-> NoMessage]

NoRun == [active |-> FALSE, runs_started |-> 0, runs_ended |-> 0,
          metrics |-> EmptyDict, error |-> NoMessage, error_logged |-> FALSE]

\* AnalysisMonitor.__init__ and __enter__
monitor_enter(t) == [NoMonitor EXCEPT !.started = TRUE, !.start_time = t]

mlflow_start_run(run) ==
    [active |-> TRUE, runs_started |-> run.runs_started + 1,
     runs_ended |-> run.runs_ended,
     metrics |-> EmptyDict, error |-> NoMessage, error_logged |-> FALSE]

\* AnalysisMonitor.track_step: the finally clause records the duration
track_step(mon, step_name, start, end) ==
    [mon EXCEPT !.step_times = Put(mon.step_times, step_name, end - start)]

log_metric(mon, name, value) ==
    [mon EXCEPT !.metrics = Put(mon.metrics, name, value)]

log_rag_stats(mon, chunks_retrieved, chunks_used) ==
    log_metric(log_metric(mon, "rag_chunks_retrieved", chunks_retrieved),
               "rag_chunks_used", chunks_used)

\* The metrics AnalysisMonitor.__exit__ sends to MLflow, by name
ExitMetrics(mon, e, t) ==
    [k \in {<<"metric", "total_latency_seconds">>, <<"metric", "success">>}
           \cup {<<"latency", s>> : s \in DOMAIN mon.step_times}
           \cup {<<"metric", m>> : m \in DOMAIN mon.metrics} |->
        CASE k = <<"metric", "success">> ->
                IF e.type # "none" THEN 0 ELSE 1
          [] k[1] = "latency" -> mon.step_times[k[2]]
          [] k[2] \in DOMAIN mon.metrics -> mon.metrics[k[2]]
          [] OTHER -> t - mon.start_time]

\* mutant: on an exception only the error is logged before the run ends
monitor_exit_early(mon, run, e, t) ==
    [active |-> FALSE,
     runs_started |-> run.runs_started,
     runs_ended |-> run.runs_ended + 1,
     metrics |-> IF e.type # "none"
                 THEN [k \in {<<"metric", "success">>} |-> 0]
                 ELSE ExitMetrics(mon, e, t),
     error |-> IF e.type # "none" THEN Truncate(e.msg, ERROR_TRUNCATION)
               ELSE NoMessage,
     error_logged |-> e.type # "none"]

\* AnalysisMonitor.__exit__: the state of the MLflow run after it
monitor_exit(mon, run, e, t) ==
    [active |-> FALSE,
     runs_started |-> run.runs_started,
     runs_ended |-> run.runs_ended + 1,
     metrics |-> ExitMetrics(mon, e, t),
     error |-> IF e.type # "none" THEN Truncate(e.msg, ERROR_TRUNCATION)
               ELSE NoMessage,
     error_logged |-> e.type # "none"]

\* __exit__ returns False: the exception keeps propagating
exit_suppresses == FALSE


(***************************************************************************)
(* Inputs the environment supplies                                         *)
(***************************************************************************)
s_gdp_growth == <<"G","D","P"," ","G","r","o","w","t","h">>
s_total_loan == <<"T","o","t","a","l"," ","l","o","a","n"," ","2","0","2","3">>
s_co2_level == <<"C","O","2"," ","l","e","v","e","l">>
s_toc == <<"T","a","b","l","e"," ","o","f"," ","C","o","n","t","e","n","t","s">>
s_usd == <<"U","S","D">>

GoodPoint ==
    [key |-> s_total_loan, value |-> <<"5","0","0">>, unit |-> s_usd,
     page |-> PageInt(3), hasConf |-> TRUE, conf |-> 95,
     chart_type |-> "BarChart", indicator_category |-> "finance_loan",
     wellTyped |-> TRUE]

\* Raw points the formatting model can emit: a well-formed point and its
\* variations around each rule of the filter and of the validation
SamplePoints ==
    {GoodPoint,
     [GoodPoint EXCEPT !.conf = 29],
     [GoodPoint EXCEPT !.conf = 30, !.page = PageStr(<<"1","2">>)],
     [GoodPoint EXCEPT !.conf = 0, !.value = <<" ","$","7","%"," ">>],
     [GoodPoint EXCEPT !.hasConf = FALSE, !.page = PageStr(s_unknown),
                       !.chart_type = "Unknown"],
     [GoodPoint EXCEPT !.key = s_gdp_growth, !.value = <<"4",".","5">>,
                       !.unit = <<"%">>, !.chart_type = "LineChart"],
     [GoodPoint EXCEPT !.key = s_co2_level],
     [GoodPoint EXCEPT !.key = s_toc],
     [GoodPoint EXCEPT !.key = None],
     [GoodPoint EXCEPT !.value = <<"N","/","A">>],
     [GoodPoint EXCEPT !.value = <<"h","i","g","h">>, !.conf = 80],
     [GoodPoint EXCEPT !.value = s_data_not_provided],
     [GoodPoint EXCEPT !.value = <<"1",",","2","0","0">>, !.unit = None],
     [GoodPoint EXCEPT !.wellTyped = FALSE, !.conf = 10],
     [GoodPoint EXCEPT !.key = s_co2_level, !.wellTyped = FALSE]}

PointLists == UNION {[1..n -> SamplePoints] : n \in 0..MaxPoints}

\* What the extraction chain can produce: a model error (timeout, refused
\* connection), text that is not JSON, a JSON array, a JSON object without
\* "extracted_points", a JSON object with points
FormatterOutputs ==
    {[kind |-> k, hasPoints |-> FALSE, points |-> <<>>] :
        k \in {"llm_error", "text", "array", "object"}}
    \cup {[kind |-> "object", hasPoints |-> TRUE, points |-> ps] : ps \in PointLists}

\* The outputs the endpoint model draws from
ServiceOutputs ==
    {o \in FormatterOutputs :
        \A i \in 1..Len(o.points) :
            o.points[i] \in {GoodPoint, [GoodPoint EXCEPT !.conf = 29]}}

RawSummaries == {<<" ","W","a","t","e","r","\n">>, <<"C","O","2">>}

\* failures of the summary model, by the length of their message
SummaryErrors ==
    {[type |-> "ResponseError", msg |-> [text |-> "model_error", len |-> n]] :
        n \in {ERROR_TRUNCATION - 1, ERROR_TRUNCATION, ERROR_TRUNCATION + 1}}

StoreError ==
    [type |-> "ChromaError", msg |-> [text |-> "collection_unavailable", len |-> 30]]

Categories == {"CLIMATE AND EMISSIONS", "Undetermined category (BERT error)"}

\* post-processing of the raw summary (tasks/summary/logic.py)
post_process_summary(text) == Strip(text)

(***************************************************************************)
(* Initial states                                                          *)
(***************************************************************************)
NoRequest == [file_path |-> [form |-> "none", name |-> "none"], document_id |-> 0]

NoSummary == [textual_summary |-> <<>>, confidence_score |-> 0, category |-> "none"]

NoResponse == [status |-> 0, prefix |-> "none", detail |-> NoMessage,
               summary |-> NoSummary, extracted_data |-> <<>>]

NoOutput == [kind |-> "none", hasPoints |-> FALSE, points |-> <<>>]

NoOutcome == [exc |-> NoException, returned |-> FALSE, counted |-> FALSE,
              data |-> <<>>, validated_points |-> <<>>]

ServiceInit ==
    /\ pc = "idle"
    /\ request = NoRequest
    /\ absolute_file_path = NoPath
    /\ VECTOR_STORE = "None"
    /\ EMBEDDING_MODEL = 0
    /\ embeddingLoads = 0
    /\ monitor = NoMonitor
    /\ mlflow = NoRun
    /\ now = 0
    /\ exc = NoException
    /\ calls = <<>>
    /\ retrieved_documents = <<>>
    /\ summary_documents = <<>>
    /\ extracted_data = <<>>
    /\ raw_summary = <<>>
    /\ final_summary = <<>>
    /\ confidence_input = None
    /\ classify_input = None
    /\ summary_result = NoSummary
    /\ response = NoResponse
    /\ served = 0

\* What the persisted Chroma collection can hold when the service starts:
\* nothing, or the chunks an earlier run indexed for one document
PersistedStores ==
    {<<>>} \cup {TaggedChunks([dir |-> "/app/bucket", name |-> "a.pdf"], d) :
                    d \in DocIds}

\* no direct call of ingest_document_with_metadata made yet
NoIngest == [calls |-> 0, file_path |-> NoPath, document_id |-> 0,
             store_before |-> <<>>, exc |-> NoException]

\* the benchmark has read no report and scored no output
NoReport == [phase |-> "off"]

NoEvaluation == [phase |-> "off"]

BenchIdle == report = NoReport /\ evaluation = NoEvaluation

\* validate_and_clean_extracted_data has not been called directly
NoCleaning == [phase |-> "off", input |-> <<>>, quantifiable |-> <<>>,
               output |-> <<>>]

StudyIdle ==
    /\ formatter_output = NoOutput
    /\ outcome = NoOutcome
    /\ ingest = NoIngest
    /\ cleaning = NoCleaning
    /\ BenchIdle

NoValidation == [phase |-> "off", thresholds |-> [rouge1_fmeasure |-> 0,
                     rougeL_fmeasure |-> 0, category_accuracy |-> 0],
                 results |-> <<>>, successful |-> 0, failed |-> 0,
                 exit_code |-> -1]

ValidationIdle == validation = NoValidation

NoPrediction == [text |-> <<>>, given |-> FALSE, exc |-> NoException,
                 input_ids |-> <<>>, logits |-> <<>>, category |-> "none"]

\* log: the calls of predict_category so far, each with what it returned and
\* with _CACHED_COMPONENTS and the model weights before and after it
NoClassifier == [phase |-> "off", files |-> FALSE, weights |-> 0,
                 cached |-> FALSE, predictions |-> 0, last |-> NoPrediction,
                 log |-> <<>>]

ClassifierIdle == classifier = NoClassifier

Init ==
    /\ ServiceInit
    /\ fs \in [AbsPaths -> FileStates]
    /\ store \in PersistedStores
    /\ StudyIdle
    /\ ValidationIdle
    /\ ClassifierIdle


(***************************************************************************)
(* POST /api/analyze-document (main.py)                                    *)
(***************************************************************************)
otherVars == <<formatter_output, outcome, validation, classifier, ingest,
               cleaning,
               benchVars>>

\* FastAPI hands the handler a validated AnalyzeDocumentRequest
Receive(file_path, document_id) ==
    /\ pc = "idle"
    /\ served < MaxRequests
    /\ request' = [file_path |-> file_path, document_id |-> document_id]
    /\ pc' = "resolve"
    /\ absolute_file_path' = NoPath
    /\ monitor' = NoMonitor
    /\ mlflow' = [NoRun EXCEPT !.runs_started = mlflow.runs_started,
                               !.runs_ended = mlflow.runs_ended]
    /\ now' = 0
    /\ exc' = NoException
    /\ calls' = <<>>
    /\ retrieved_documents' = <<>>
    /\ summary_documents' = <<>>
    /\ extracted_data' = <<>>
    /\ raw_summary' = <<>>
    /\ final_summary' = <<>>
    /\ confidence_input' = None
    /\ classify_input' = None
    /\ summary_result' = NoSummary
    /\ response' = NoResponse
    /\ UNCHANGED <<fs, store, VECTOR_STORE, EMBEDDING_MODEL, embeddingLoads,
                   served, otherVars>>

\* absolute_file_path = get_absolute_file_path(request.file_path)
ResolvePath ==
    /\ pc = "resolve"
    /\ LET r == get_absolute_file_path(request.file_path)
       IN  /\ absolute_file_path' = r.path
           /\ exc' = r.exc
           /\ calls' = calls \o <<"resolve.start",
                   IF r.exc.type = "none" THEN "resolve.end" ELSE "resolve.raise">>
           /\ pc' = IF r.exc.type = "none" THEN "index" ELSE "respond"
    /\ now' = now + 1
    /\ UNCHANGED <<request, fs, store, VECTOR_STORE, EMBEDDING_MODEL,
                   embeddingLoads, monitor, mlflow, retrieved_documents,
                   summary_documents, extracted_data, raw_summary, final_summary,
                   confidence_input, classify_input, summary_result, response,
                   served, otherVars>>

\* mutant: an empty chunk list is handed to index_documents, which returns
\* without adding anything, instead of raising ValueError
ingest_document_with_metadata_unchecked(file_path, document_id, fault) ==
    IF ~exists(file_path)
    THEN [exc |-> [type |-> "FileNotFoundError",
                   msg |-> [text |-> "document_not_found", len |-> 40]],
          added |-> <<>>, indexed |-> FALSE]
    ELSE IF fault
         THEN [exc |-> StoreError, added |-> <<>>, indexed |-> TRUE]
         ELSE [exc |-> NoException,
               added |-> load_and_split_pdf(file_path, document_id),
               indexed |-> TRUE]

\* ingest_document_with_metadata: the exception it raises, the chunks it adds
\* to the collection and whether index_documents was reached
ingest_document_with_metadata(file_path, document_id, fault) ==
    IF ~exists(file_path)
    THEN [exc |-> [type |-> "FileNotFoundError",
                   msg |-> [text |-> "document_not_found", len |-> 40]],
          added |-> <<>>, indexed |-> FALSE]
    ELSE LET chunks == load_and_split_pdf(file_path, document_id)
         IN  IF Len(chunks) = 0
             THEN [exc |-> [type |-> "ValueError",
                            msg |-> [text |-> "failed_to_create_document_chunks",
                                     len |-> 33]],
                   added |-> <<>>, indexed |-> FALSE]
             ELSE IF fault
                  THEN [exc |-> StoreError, added |-> <<>>, indexed |-> TRUE]
                  ELSE [exc |-> NoException, added |-> chunks, indexed |-> TRUE]

\* mutant: the ingest error is logged and swallowed, as ingest_document does
AfterIngest_swallow(e) == "extract_retrieve"

\* Where the handler goes after the indexing step: into the extraction
\* pipeline, or out of the with block when ingest raised
AfterIngest(e) == IF e.type = "none" THEN "extract_retrieve" ELSE "monitor_exit"

\* with create_monitor(...) as monitor: with monitor.track_step("chromadb_indexing"):
\*     ingest_document_with_metadata(...)
IndexDocument(fault) ==
    /\ pc = "index"
    /\ LET r == ingest_document_with_metadata(absolute_file_path,
                                              request.document_id, fault)
           em == IF r.indexed
                 THEN get_embedding_model(EMBEDDING_MODEL, embeddingLoads)
                 ELSE [model |-> EMBEDDING_MODEL, loads |-> embeddingLoads]
       IN  /\ store' = store \o r.added
           /\ EMBEDDING_MODEL' = em.model
           /\ embeddingLoads' = em.loads
           /\ VECTOR_STORE' = IF r.indexed THEN "Chroma" ELSE VECTOR_STORE
           /\ exc' = r.exc
           /\ monitor' = track_step(monitor_enter(now), "chromadb_indexing",
                                    now, now + 1)
           /\ mlflow' = mlflow_start_run(mlflow)
           /\ calls' = calls \o <<"ingest.start",
                   IF r.exc.type = "none" THEN "ingest.end" ELSE "ingest.raise">>
           /\ pc' = AfterIngest(r.exc)
    /\ now' = now + 1
    /\ UNCHANGED <<request, absolute_file_path, fs, retrieved_documents,
                   summary_documents, extracted_data, raw_summary, final_summary,
                   confidence_input, classify_input, summary_result, response,
                   served, otherVars>>

\* mutant: the early return on an empty retrieval is never taken
NothingRetrieved_never(retrieved_documents_) == FALSE

\* `if not retrieved_documents:`
NothingRetrieved(retrieved_documents_) == Len(retrieved_documents_) = 0

\* `if monitor:` of process_document_for_data_extraction: the monitor takes
\* the update when the caller passed one (NoMonitor stands for monitor=None)
IfMonitor(mon, updated) == IF mon = NoMonitor THEN mon ELSE updated

\* process_document_for_data_extraction up to the chain invocation, called
\* at position `here`; it goes on at `invoke`, returns to `back` or raises to
\* `raised`
ExtractRetrieveAt(fault, here, invoke, back, raised) ==
    /\ pc = here
    /\ LET em == get_embedding_model(EMBEDDING_MODEL, embeddingLoads)
           retrieved == retrieve_context(store, 0, K_EXTRACTION,
                                         FilterFor(request.document_id))
           mon == IfMonitor(monitor,
                            track_step(monitor, "extraction_rag_retrieval",
                                       now, now + 1))
           context == ExtractionContext(retrieved, absolute_file_path,
                                        request.document_id)
       IN  /\ EMBEDDING_MODEL' = em.model
           /\ embeddingLoads' = em.loads
           /\ IF fault
              THEN /\ exc' = StoreError
                   /\ monitor' = mon
                   /\ calls' = calls \o <<"extraction.start", "extraction.raise">>
                   /\ pc' = raised
                   /\ UNCHANGED <<retrieved_documents, extracted_data>>
              ELSE IF NothingRetrieved(retrieved)
              THEN /\ monitor' = IfMonitor(mon, log_rag_stats(mon, 0, 0))
                   /\ extracted_data' = <<>>
                   /\ calls' = calls \o <<"extraction.start", "extraction.end">>
                   /\ pc' = back
                   /\ UNCHANGED <<retrieved_documents, exc>>
              ELSE /\ retrieved_documents' = Take(context, MAX_CHUNKS)
                   /\ monitor' = IfMonitor(mon,
                          log_rag_stats(mon, Len(context),
                                        Len(Take(context, MAX_CHUNKS))))
                   /\ calls' = calls \o <<"extraction.start",
                                          "extraction.read_pdf">>
                   /\ pc' = invoke
                   /\ UNCHANGED <<extracted_data, exc>>
    /\ now' = now + 1
    /\ UNCHANGED <<request, absolute_file_path, fs, store, VECTOR_STORE, mlflow,
                   summary_documents, raw_summary, final_summary, confidence_input,
                   classify_input, summary_result, response, served, otherVars>>

\* the call of process_document_for_data_extraction in analyze_document
ExtractRetrieve(fault) ==
    ExtractRetrieveAt(fault, "extract_retrieve", "extract_invoke",
                      "summary_retrieve", "monitor_exit")

\* process_document_for_data_extraction from the chain invocation on
ExtractInvokeAt(out, here, back, raised) ==
    /\ pc = here
    /\ LET o == ExtractionOutcome(out)
           mon == IfMonitor(monitor,
                            track_step(monitor, "extraction_llm_invoke",
                                       now, now + 1))
       IN  /\ extracted_data' = o.data
           /\ exc' = o.exc
           /\ monitor' = IF o.counted
                         THEN IfMonitor(mon, log_metric(mon, "extracted_data_count",
                                                        Len(o.data)))
                         ELSE mon
           /\ calls' = calls
                   \o (IF invoke_extraction_chain(out).tag = "raise"
                       THEN <<"llm.extraction", "llm.extraction.raise">>
                       ELSE <<"llm.extraction">>)
                   \o <<IF o.returned THEN "extraction.end" ELSE "extraction.raise">>
           /\ pc' = IF o.returned THEN back ELSE raised
    /\ now' = now + 1
    /\ UNCHANGED <<request, absolute_file_path, fs, store, VECTOR_STORE,
                   EMBEDDING_MODEL, embeddingLoads, mlflow, retrieved_documents,
                   summary_documents, raw_summary, final_summary, confidence_input,
                   classify_input, summary_result, response, served, otherVars>>

ExtractInvoke(out) ==
    ExtractInvokeAt(out, "extract_invoke", "summary_retrieve", "monitor_exit")


\* get_embedding_model called n times in a row
RECURSIVE LoadEmbeddings(_, _, _)
LoadEmbeddings(model, loads, n) ==
    IF n = 0 THEN [model |-> model, loads |-> loads]
    ELSE LET em == get_embedding_model(model, loads)
         IN  LoadEmbeddings(em.model, em.loads, n - 1)

\* the answer of process_document_for_summary when no context is available
FallbackSummary ==
    [textual_summary |-> <<"E","r","r","o","r">>, confidence_score |-> 0,
     category |-> "Unknown"]

\* process_document_for_summary up to the summary model: five searches,
\* fusion, the first pages read from the PDF
SummaryRetrieve(fault) ==
    /\ pc = "summary_retrieve"
    /\ LET em == LoadEmbeddings(EMBEDDING_MODEL, embeddingLoads,
                                IF fault THEN 1 ELSE 5)
           mon == track_step(monitor, "summary_rag_retrieval", now, now + 1)
           context == SummaryContext(store, absolute_file_path,
                                     request.document_id)
       IN  /\ EMBEDDING_MODEL' = em.model
           /\ embeddingLoads' = em.loads
           /\ IF fault
              THEN /\ exc' = StoreError
                   /\ monitor' = mon
                   /\ calls' = calls \o <<"summary.start", "summary.raise">>
                   /\ pc' = "monitor_exit"
                   /\ UNCHANGED <<summary_documents, summary_result>>
              ELSE IF Len(context) = 0
              THEN /\ monitor' = log_metric(mon, "summary_chunks_used", 0)
                   /\ summary_result' = FallbackSummary
                   /\ calls' = calls \o <<"summary.start", "summary.end">>
                   /\ pc' = "monitor_exit"
                   /\ UNCHANGED <<summary_documents, exc>>
              ELSE /\ summary_documents' = context
                   /\ monitor' = log_metric(mon, "summary_chunks_used",
                                            Len(context))
                   /\ calls' = Append(calls, "summary.start")
                   /\ pc' = "summary_invoke"
                   /\ UNCHANGED <<summary_result, exc>>
    /\ now' = now + 1
    /\ UNCHANGED <<request, absolute_file_path, fs, store, VECTOR_STORE, mlflow,
                   retrieved_documents, extracted_data, raw_summary, final_summary,
                   confidence_input, classify_input, response, served,
                   otherVars>>

\* raw_summary = invoke_summary_chain(...); final_summary = post_process_summary(...)
SummaryInvoke(raw, error) ==
    /\ pc = "summary_invoke"
    /\ monitor' = track_step(monitor, "summary_llm_invoke", now, now + 1)
    /\ IF error.type # "none"
       THEN /\ exc' = error
            /\ calls' = calls \o <<"llm.summary", "summary.raise">>
            /\ pc' = "monitor_exit"
            /\ UNCHANGED <<raw_summary, final_summary>>
       ELSE /\ raw_summary' = raw
            /\ final_summary' = post_process_summary(raw)
            /\ calls' = Append(calls, "llm.summary")
            /\ pc' = "confidence"
            /\ UNCHANGED exc
    /\ now' = now + 1
    /\ UNCHANGED <<request, absolute_file_path, fs, store, VECTOR_STORE,
                   EMBEDDING_MODEL, embeddingLoads, mlflow, retrieved_documents,
                   summary_documents, extracted_data, confidence_input,
                   classify_input, summary_result, response, served, otherVars>>

\* confidence_score = 0.5 in the except clauses of the confidence step
FALLBACK_CONFIDENCE == 50

\* What CONFIDENCE_CHAIN.invoke can do: raise (model error, output that is
\* not JSON), or return the dict JsonOutputParser parsed
ConfidenceResults ==
    {[kind |-> "raise", confidence_score |-> 0],
     [kind |-> "dict", confidence_score |-> 80],
     [kind |-> "dict", confidence_score |-> 20]}

\* confidence_result.confidence_score inside the try: the parser hands back
\* a dict, reading the attribute raises AttributeError, and the except
\* clause sets the fallback, as it does when the invocation itself raised
confidence_score_of(confidence_result) == FALLBACK_CONFIDENCE

\* the confidence step of process_document_for_summary, log_confidence included
ConfidenceStep(confidence_result) ==
    /\ pc = "confidence"
    /\ confidence_input' = final_summary
    /\ summary_result' = [summary_result EXCEPT
            !.confidence_score = confidence_score_of(confidence_result)]
    /\ monitor' = log_metric(
            track_step(monitor, "confidence_calculation", now, now + 1),
            "confidence_score", confidence_score_of(confidence_result))
    /\ calls' = Append(calls, "llm.confidence")
    /\ pc' = "classify"
    /\ now' = now + 1
    /\ UNCHANGED <<request, absolute_file_path, fs, store, VECTOR_STORE,
                   EMBEDDING_MODEL, embeddingLoads, mlflow, exc,
                   retrieved_documents, summary_documents, extracted_data,
                   raw_summary, final_summary, classify_input, response,
                   served, otherVars>>

\* mutant: the raw model output is classified and returned
SummaryPassedOn_raw == raw_summary

\* the summary the pipeline passes on to the confidence chain, to
\* classify_summary and into its result
SummaryPassedOn == final_summary

\* category = classify_summary(final_summary), then the return
ClassifyStep(category) ==
    /\ pc = "classify"
    /\ classify_input' = SummaryPassedOn
    /\ summary_result' = [textual_summary |-> SummaryPassedOn,
                          confidence_score |-> summary_result.confidence_score,
                          category |-> category]
    /\ monitor' = track_step(monitor, "categorization", now, now + 1)
    /\ calls' = calls \o <<"classify", "summary.end">>
    /\ pc' = "monitor_exit"
    /\ now' = now + 1
    /\ UNCHANGED <<request, absolute_file_path, fs, store, VECTOR_STORE,
                   EMBEDDING_MODEL, embeddingLoads, mlflow, exc,
                   retrieved_documents, summary_documents, extracted_data,
                   raw_summary, final_summary, confidence_input, response, served, otherVars>>

\* AnalysisMonitor.__exit__ on leaving the with block
MonitorExit ==
    /\ pc = "monitor_exit"
    /\ mlflow' = monitor_exit(monitor, mlflow, exc, now)
    /\ monitor' = [monitor EXCEPT !.error = exc.msg]
    /\ exc' = IF exit_suppresses THEN NoException ELSE exc
    /\ pc' = "respond"
    /\ UNCHANGED <<request, absolute_file_path, fs, store, VECTOR_STORE,
                   EMBEDDING_MODEL, embeddingLoads, now, calls,
                   retrieved_documents, summary_documents, extracted_data,
                   raw_summary, final_summary, confidence_input, classify_input,
                   summary_result, response, served, otherVars>>

\* the except clauses of analyze_document: the status and detail of the
\* HTTPException for an exception e
http_error(e) ==
    IF e.type = "ValueError"
    THEN [status |-> 404, prefix |-> "", detail |-> e.msg,
          summary |-> NoSummary, extracted_data |-> <<>>]
    ELSE [status |-> 500, prefix |-> "Analysis failed: ", detail |-> e.msg,
          summary |-> NoSummary, extracted_data |-> <<>>]

\* the return statement, or the except clause that applies
Respond ==
    /\ pc = "respond"
    /\ response' = IF exc.type = "none"
                   THEN [status |-> 200, prefix |-> "", detail |-> NoMessage,
                         summary |-> summary_result,
                         extracted_data |-> extracted_data]
                   ELSE http_error(exc)
    /\ served' = served + 1
    /\ pc' = "idle"
    /\ UNCHANGED <<request, absolute_file_path, fs, store, VECTOR_STORE,
                   EMBEDDING_MODEL, embeddingLoads, monitor, mlflow, now, exc,
                   calls, retrieved_documents, summary_documents,
                   extracted_data, raw_summary, final_summary, confidence_input,
                   classify_input, summary_result, otherVars>>

Next ==
    \/ \E f \in RelPaths, d \in DocIds : Receive(f, d)
    \/ ResolvePath
    \/ \E fault \in BOOLEAN : IndexDocument(fault)
    \/ \E fault \in BOOLEAN : ExtractRetrieve(fault)
    \/ \E out \in ServiceOutputs : ExtractInvoke(out)
    \/ \E fault \in BOOLEAN : SummaryRetrieve(fault)
    \/ \E raw \in RawSummaries : SummaryInvoke(raw, NoException)
    \/ \E error \in SummaryErrors : SummaryInvoke(<<>>, error)
    \/ \E confidence_result \in ConfidenceResults : ConfidenceStep(confidence_result)
    \/ \E category \in Categories : ClassifyStep(category)
    \/ MonitorExit
    \/ Respond

Spec == Init /\ [][Next]_vars


(***************************************************************************)
(* process_document_for_data_extraction called by the endpoint, and called *)
(* directly with or without a monitor on a store of any content            *)
(***************************************************************************)
DirectRetrieve(fault) ==
    ExtractRetrieveAt(fault, "direct_retrieve", "direct_invoke",
                      "direct_returned", "direct_raised")

DirectInvoke(out) ==
    ExtractInvokeAt(out, "direct_invoke", "direct_returned", "direct_raised")

InitCalls ==
    /\ store \in PersistedStores
    /\ StudyIdle
    /\ ValidationIdle
    /\ ClassifierIdle
    /\ \/ /\ ServiceInit
          /\ fs = [p \in AbsPaths |-> "pdf"]
       \/ \E r \in RelPaths, d \in DocIds \cup {NoDocId}, state \in FileStates,
             mon \in {NoMonitor, monitor_enter(0)} :
             /\ pc = "direct_retrieve"
             /\ request = [file_path |-> r, document_id |-> d]
             /\ absolute_file_path = ResolvedPath(r)
             /\ fs = [p \in AbsPaths |->
                         IF p = ResolvedPath(r) THEN state ELSE "pdf"]
             /\ monitor = mon
             /\ VECTOR_STORE = "None"
             /\ EMBEDDING_MODEL = 0
             /\ embeddingLoads = 0
             /\ mlflow = NoRun
             /\ now = 0
             /\ exc = NoException
             /\ calls = <<>>
             /\ retrieved_documents = <<>>
             /\ summary_documents = <<>>
             /\ extracted_data = <<>>
             /\ raw_summary = <<>>
             /\ final_summary = <<>>
             /\ confidence_input = None
             /\ classify_input = None
             /\ summary_result = NoSummary
             /\ response = NoResponse
             /\ served = 0

NextCalls ==
    \/ Next
    \/ \E fault \in BOOLEAN : DirectRetrieve(fault)
    \/ \E out \in ServiceOutputs : DirectInvoke(out)

SpecCalls == InitCalls /\ [][NextCalls]_vars

(***************************************************************************)
(* The extraction tail on every output of the formatting model             *)
(***************************************************************************)
InitExtract ==
    /\ ServiceInit
    /\ fs = [p \in AbsPaths |-> "pdf"]
    /\ store = <<>>
    /\ formatter_output \in FormatterOutputs
    /\ outcome = NoOutcome
    /\ ingest = NoIngest
    /\ cleaning = NoCleaning
    /\ BenchIdle
    /\ ValidationIdle
    /\ ClassifierIdle

\* invoke_extraction_chain, validation and conversion applied to the output
ApplyExtraction ==
    /\ pc = "idle"
    /\ formatter_output # NoOutput
    /\ outcome = NoOutcome
    /\ outcome' = ExtractionOutcome(formatter_output)
    /\ pc' = "extracted"
    /\ UNCHANGED <<request, absolute_file_path, fs, store, VECTOR_STORE,
                   EMBEDDING_MODEL, embeddingLoads, monitor, mlflow, now, exc,
                   calls, retrieved_documents, summary_documents,
                   extracted_data, raw_summary, final_summary, confidence_input,
                   classify_input, summary_result, response, served,
                   formatter_output, validation, classifier, ingest,
                   cleaning, benchVars>>

NextExtract == ApplyExtraction

SpecExtract == InitExtract /\ [][NextExtract]_vars

(***************************************************************************)
(* ingest_document_with_metadata called on any path (ingest.py)            *)
(***************************************************************************)
\* direct calls in one run of the model
MaxIngests == 2

InitIngest ==
    /\ ServiceInit
    /\ fs \in [AbsPaths -> FileStates]
    /\ store \in PersistedStores
    /\ StudyIdle
    /\ ValidationIdle
    /\ ClassifierIdle

\* one call of ingest_document_with_metadata, index_documents included
Ingest(file_path, document_id, fault) ==
    /\ ingest.calls < MaxIngests
    /\ LET r == ingest_document_with_metadata(file_path, document_id, fault)
           em == IF r.indexed
                 THEN get_embedding_model(EMBEDDING_MODEL, embeddingLoads)
                 ELSE [model |-> EMBEDDING_MODEL, loads |-> embeddingLoads]
       IN  /\ store' = store \o r.added
           /\ EMBEDDING_MODEL' = em.model
           /\ embeddingLoads' = em.loads
           /\ VECTOR_STORE' = IF r.indexed THEN "Chroma" ELSE VECTOR_STORE
           /\ ingest' = [calls |-> ingest.calls + 1,
                         file_path |-> file_path,
                         document_id |-> document_id,
                         store_before |-> store,
                         exc |-> r.exc]
    /\ UNCHANGED <<pc, request, absolute_file_path, fs, monitor, mlflow, now,
                   exc, calls, retrieved_documents, summary_documents,
                   extracted_data, raw_summary, final_summary,
                   confidence_input, classify_input, summary_result, response,
                   served, formatter_output, outcome, validation, classifier,
                   cleaning, benchVars>>

NextIngest ==
    \E file_path \in AbsPaths, document_id \in DocIds, fault \in BOOLEAN :
        Ingest(file_path, document_id, fault)

SpecIngest == InitIngest /\ [][NextIngest]_vars

(***************************************************************************)
(* benchmark: extract_text_from_report (benchmarcking/utils/               *)
(* data_extraction.py)                                                     *)
(***************************************************************************)
\* pages of a report in the model
MaxPages == 3

\* len(text.strip()) < 100
MIN_TEXT_LENGTH == 100

\* What page.extract_text() returns, by its parts: lead characters of
\* whitespace, then body characters from the first to the last non-blank
\* one.  lead = body = 0 is the empty string (a page without text).
PageTexts ==
    {[id |-> 0, lead |-> 0, body |-> 0],
     [id |-> 1, lead |-> 1, body |-> 0],
     [id |-> 2, lead |-> 0, body |-> 80],
     [id |-> 3, lead |-> 2, body |-> 120]}

\* if page_text:
HasText(page_text) == page_text.lead + page_text.body > 0

\* the report files the benchmark is pointed at
ReportFiles ==
    {[state |-> s, pages |-> <<>>] : s \in {"missing", "dir", "corrupt"}}
    \cup {[state |-> "pdf", pages |-> ps] :
             ps \in UNION {[1..n -> PageTexts] : n \in 0..MaxPages}}

\* len(f"\n---PAGE {i+1}---\n"), for the page at index n = i + 1
MarkerLen(n) == 1 + 8 + Len(IntToStr(n)) + 3 + 1

\* A text is the sequence of its segments, each a page marker followed by
\* the text of that page.  len(text)
RECURSIVE TextLen(_)
TextLen(text) ==
    IF Len(text) = 0 THEN 0
    ELSE MarkerLen(Head(text).page) + Head(text).text.lead
            + Head(text).text.body + TextLen(Tail(text))

\* len(text.strip()): the newline that opens the first marker goes, and
\* when the last page is all whitespace so do it and the newline before it
StrippedLen(text) ==
    IF Len(text) = 0 THEN 0
    ELSE LET last == text[Len(text)].text
         IN  TextLen(text) - 1
                - (IF last.body = 0 THEN last.lead + 1 ELSE 0)

\* the loop over reader.pages from page index n on: a page with text makes
\* text the marker of the page followed by its text
RECURSIVE ReadPages(_, _, _)
ReadPages(pages, n, text) ==
    IF n > Len(pages) THEN text
    ELSE IF HasText(pages[n])
         THEN ReadPages(pages, n + 1, <<[page |-> n, text |-> pages[n]]>>)
         ELSE ReadPages(pages, n + 1, text)

NoText == [kind |-> "None", text |-> <<>>]

\* extract_text_from_report: the text, or None
extract_text_from_report(file) ==
    IF file.state = "missing" THEN NoText
    ELSE IF file.state # "pdf" THEN NoText
    ELSE LET text == ReadPages(file.pages, 1, <<>>)
         IN  IF StrippedLen(text) < MIN_TEXT_LENGTH THEN NoText
             ELSE [kind |-> "str", text |-> text]

InitReport ==
    /\ ServiceInit
    /\ fs = [p \in AbsPaths |-> "pdf"]
    /\ store = <<>>
    /\ formatter_output = NoOutput
    /\ outcome = NoOutcome
    /\ ingest = NoIngest
    /\ cleaning = NoCleaning
    /\ evaluation = NoEvaluation
    /\ ValidationIdle
    /\ ClassifierIdle
    /\ \E file \in ReportFiles :
          report = [phase |-> "listed", file |-> file, result |-> NoText]

\* document_content = extract_text_from_report(file_path)
ExtractText ==
    /\ report.phase = "listed"
    /\ report' = [report EXCEPT !.phase = "read",
                                !.result = extract_text_from_report(report.file)]
    /\ UNCHANGED <<serviceVars, formatter_output, outcome, ingest, cleaning,
                   evaluation,
                   validation, classifier>>

NextReport == ExtractText

SpecReport == InitReport /\ [][NextReport]_vars

(***************************************************************************)
(* benchmark: evaluate_data_extraction (benchmarcking/utils/evaluations.py)*)
(***************************************************************************)
\* facts in one JSON object
MaxFacts == 2

\* Python floats of the scores, kept exact as fractions n / d with d > 0
Frac(n, d) == [n |-> n, d |-> d]

Zero == Frac(0, 1)

FracMul(a, b) == Frac(a.n * b.n, a.d * b.d)

FracAdd(a, b) == Frac(a.n * b.d + b.n * a.d, a.d * b.d)

\* a / b for b > 0
FracDiv(a, b) == Frac(a.n * b.d, a.d * b.n)

FracEq(a, b) == a.n * b.d = b.n * a.d

FracLeq(a, b) == a.n * b.d <= b.n * a.d

FracPositive(a) == a.n > 0

\* Entries of a "facts" list.  A field the entry lacks reads as '' through
\* fact.get(field, ''); a JSON null reads as None.
Fact(key, value, unit) == [isDict |-> TRUE, key |-> key, value |-> value, unit |-> unit]

RawFacts ==
    {Fact(<<"G","D","P">>, <<"5">>, <<"%">>),
     Fact(<<" ","g","d","p"," ">>, <<"5"," ">>, <<"%">>),
     Fact(<<"C","O","2">>, <<"7">>, <<>>),
     Fact(<<"C","O","2">>, <<"8">>, <<"t">>),
     Fact(<<"C","O","2">>, <<"D","a","t","a"," ","n","o","t"," ","p","r","o","v","i","d","e","d">>, <<>>),
     Fact(<<"G","D","P">>, <<"5">>, None),
     [isDict |-> FALSE, key |-> <<>>, value |-> <<>>, unit |-> <<>>]}

FactLists == UNION {[1..n -> RawFacts] : n \in 0..MaxFacts}

\* parsed JSON values handed to normalize_data_keys
JsonObjects ==
    {[kind |-> "list", hasFacts |-> FALSE, facts |-> <<>>],
     [kind |-> "dict", hasFacts |-> FALSE, facts |-> <<>>]}
    \cup {[kind |-> "dict", hasFacts |-> TRUE, facts |-> fs_] : fs_ \in FactLists}

\* generated_json_string: text that json.loads rejects, or the text of a value
GeneratedStrings ==
    {[valid |-> FALSE, data |-> [kind |-> "dict", hasFacts |-> FALSE, facts |-> <<>>]]}
    \cup {[valid |-> TRUE, data |-> o] : o \in JsonObjects}

\* reference_numbers of a reference document
ReferenceObjects == {o \in JsonObjects : o.kind = "dict"}

\* one iteration of the loop of normalize_data_keys: the facts it adds
NormalizedFact(fact) ==
    IF ~fact.isDict \/ fact.key = None \/ fact.value = None \/ fact.unit = None
    THEN {}
    ELSE LET key == Strip(Lower(fact.key))
             value == Strip(Lower(fact.value))
             unit == Strip(Lower(fact.unit))
         IN  IF Len(key) > 0 /\ Len(value) > 0 /\ value # s_data_not_provided
             THEN {<<key, value, unit>>}
             ELSE {}

normalize_data_keys(data_object) ==
    LET fact_list == IF data_object.kind = "dict" /\ data_object.hasFacts
                     THEN data_object.facts ELSE <<>>
    IN  UNION {NormalizedFact(fact_list[i]) : i \in 1..Len(fact_list)}

\* mutant: precision and recall take each other's denominator
evaluate_data_extraction_swapped(generated_json_string, reference_json) ==
    IF ~generated_json_string.valid
    THEN [extraction_precision |-> Zero, extraction_recall |-> Zero,
          extraction_f1 |-> Zero, is_valid_json |-> 0]
    ELSE LET reference_facts == normalize_data_keys(reference_json)
             generated_facts == normalize_data_keys(generated_json_string.data)
             true_positives == Cardinality(reference_facts \cap generated_facts)
             possible_positives == Cardinality(reference_facts)
             generated_positives == Cardinality(generated_facts)
             precision == IF possible_positives > 0
                          THEN Frac(true_positives, possible_positives) ELSE Zero
             recall == IF generated_positives > 0
                       THEN Frac(true_positives, generated_positives) ELSE Zero
             f1_score == IF FracPositive(FracAdd(precision, recall))
                         THEN FracDiv(FracMul(Frac(2, 1), FracMul(precision, recall)),
                                      FracAdd(precision, recall))
                         ELSE Zero
         IN  [extraction_precision |-> precision, extraction_recall |-> recall,
              extraction_f1 |-> f1_score, is_valid_json |-> 1]

evaluate_data_extraction(generated_json_string, reference_json) ==
    IF ~generated_json_string.valid
    THEN [extraction_precision |-> Zero, extraction_recall |-> Zero,
          extraction_f1 |-> Zero, is_valid_json |-> 0]
    ELSE LET reference_facts == normalize_data_keys(reference_json)
             generated_facts == normalize_data_keys(generated_json_string.data)
             true_positives == Cardinality(reference_facts \cap generated_facts)
             possible_positives == Cardinality(reference_facts)
             generated_positives == Cardinality(generated_facts)
             precision == IF generated_positives > 0
                          THEN Frac(true_positives, generated_positives) ELSE Zero
             recall == IF possible_positives > 0
                       THEN Frac(true_positives, possible_positives) ELSE Zero
             f1_score == IF FracPositive(FracAdd(precision, recall))
                         THEN FracDiv(FracMul(Frac(2, 1), FracMul(precision, recall)),
                                      FracAdd(precision, recall))
                         ELSE Zero
         IN  [extraction_precision |-> precision, extraction_recall |-> recall,
              extraction_f1 |-> f1_score, is_valid_json |-> 1]

NoScores == [extraction_precision |-> Zero, extraction_recall |-> Zero,
             extraction_f1 |-> Zero, is_valid_json |-> 0]

InitEvaluation ==
    /\ ServiceInit
    /\ fs = [p \in AbsPaths |-> "pdf"]
    /\ store = <<>>
    /\ formatter_output = NoOutput
    /\ outcome = NoOutcome
    /\ ingest = NoIngest
    /\ cleaning = NoCleaning
    /\ report = NoReport
    /\ ValidationIdle
    /\ ClassifierIdle
    /\ \E g \in GeneratedStrings, r \in ReferenceObjects :
          evaluation = [phase |-> "extracted", generated |-> g,
                        reference |-> r, scores |-> NoScores]

\* extraction_scores = evaluate_data_extraction(extracted_data, reference_numbers)
Evaluate ==
    /\ evaluation.phase = "extracted"
    /\ evaluation' = [evaluation EXCEPT
          !.phase = "scored",
          !.scores = evaluate_data_extraction(evaluation.generated,
                                              evaluation.reference)]
    /\ UNCHANGED <<serviceVars, formatter_output, outcome, ingest, cleaning,
                   report,
                   validation, classifier>>

NextEvaluation == Evaluate

SpecEvaluation == InitEvaluation /\ [][NextEvaluation]_vars

(***************************************************************************)
(* tests/run_model_validation.py                                           *)
(***************************************************************************)
\* reference documents in one validation run
MaxValidationDocs == 2

\* DEFAULT_THRESHOLDS, in hundredths
DEFAULT_ROUGE1 == 25
DEFAULT_ROUGEL == 20
DEFAULT_CATEGORY_ACCURACY == 70

\* what validate_document can return for one document
ValidationResults ==
    [success : BOOLEAN, rouge1_fmeasure : {10, 25, 40},
     rougeL_fmeasure : {15, 25}, category_correct : BOOLEAN]

\* values of --threshold
ThresholdArgs == {0, DEFAULT_ROUGE1, 30}

InitValidation ==
    /\ ServiceInit
    /\ fs = [p \in AbsPaths |-> "pdf"]
    /\ store = <<>>
    /\ StudyIdle
    /\ ClassifierIdle
    /\ \E th \in ThresholdArgs :
          validation = [NoValidation EXCEPT
              !.phase = "running",
              !.thresholds = [rouge1_fmeasure |-> th,
                              rougeL_fmeasure |-> DEFAULT_ROUGEL,
                              category_accuracy |-> DEFAULT_CATEGORY_ACCURACY]]

RECURSIVE SumOf(_, _)
SumOf(s, field) ==
    IF Len(s) = 0 THEN 0 ELSE s[1][field] + SumOf(Tail(s), field)

\* The aggregates of run_validation over the successful results.  An average
\* is kept as the pair (sum, count); with no successful result it stays 0.0.
Aggregates(results) ==
    LET successful_results == SelectSeq(results, LAMBDA r : r.success)
    IN  [count |-> Len(successful_results),
         sum_rouge1 |-> SumOf(successful_results, "rouge1_fmeasure"),
         sum_rougeL |-> SumOf(successful_results, "rougeL_fmeasure"),
         correct |-> Len(SelectSeq(successful_results,
                                   LAMBDA r : r.category_correct))]

\* average < threshold, for average = sum / count (0.0 when count = 0)
AvgBelow(sum, count, threshold) ==
    IF count = 0 THEN 0 < threshold ELSE sum < threshold * count

\* mutant: the ROUGE-L threshold is not checked
passes_thresholds_no_rougeL(agg, thresholds) ==
    /\ ~AvgBelow(agg.sum_rouge1, agg.count, thresholds.rouge1_fmeasure)
    /\ ~AvgBelow(100 * agg.correct, agg.count, thresholds.category_accuracy)

\* ValidationSummary.passes_thresholds
passes_thresholds(agg, thresholds) ==
    IF AvgBelow(agg.sum_rouge1, agg.count, thresholds.rouge1_fmeasure) THEN FALSE
    ELSE IF AvgBelow(agg.sum_rougeL, agg.count, thresholds.rougeL_fmeasure) THEN FALSE
    ELSE IF AvgBelow(100 * agg.correct, agg.count, thresholds.category_accuracy)
         THEN FALSE
    ELSE TRUE

\* one iteration of the loop of run_validation
ValidateDocument(result) ==
    /\ validation.phase = "running"
    /\ Len(validation.results) < MaxValidationDocs
    /\ validation' = [validation EXCEPT
          !.results = Append(@, result),
          !.successful = IF result.success THEN @ + 1 ELSE @,
          !.failed = IF result.success THEN @ ELSE @ + 1]
    /\ UNCHANGED <<serviceVars, studyVars, classifier>>

\* the end of the loop, the aggregates and the exit code of main
FinishValidation ==
    /\ validation.phase = "running"
    /\ validation' = [validation EXCEPT
          !.phase = "exited",
          !.exit_code =
              IF passes_thresholds(Aggregates(validation.results),
                                   validation.thresholds)
                 /\ validation.failed = 0
              THEN 0 ELSE 1]
    /\ UNCHANGED <<serviceVars, studyVars, classifier>>

NextValidation ==
    \/ \E result \in ValidationResults : ValidateDocument(result)
    \/ FinishValidation

SpecValidation == InitValidation /\ [][NextValidation]_vars

(***************************************************************************)
(* tasks/data_extraction/logic.py: validate_and_clean_extracted_data       *)
(* called on an ExtractionResult of any content                            *)
(***************************************************************************)
MaxCleanPoints == 2

\* values an ExtractedDataPoint can carry: blank ones, generic text, the
\* no-data markers in several letter cases, and values with a number
CleanValues ==
    {<<>>, <<" "," ">>, <<"\t">>,
     <<"h","i","g","h">>, <<"%">>,
     s_data_not_provided,
     <<"D","a","t","a"," ","N","o","t"," ","P","r","o","v","i","d","e","d">>,
     <<"N","O","T"," ","A","V","A","I","L","A","B","L","E">>,
     s_na, <<" ","N","/","A"," ">>,
     <<"U","n","k","n","o","w","n">>,
     <<"T","B","D">>,
     <<"T","o"," ","b","e"," ","D","e","t","e","r","m","i","n","e","d">>,
     <<"5","0","0">>, <<" ","$","7","%"," ">>, <<"Q","1"," ","2","0","2","4">>,
     <<"t","b","d"," ","3">>}

CleanInputs ==
    {[ToDataPoint(GoodPoint) EXCEPT !.value = v, !.confidence_score = c] :
        v \in CleanValues, c \in {29, 95}}

ExtractionResults == UNION {[1..n -> CleanInputs] : n \in 0..MaxCleanPoints}

InitClean ==
    /\ ServiceInit
    /\ fs = [p \in AbsPaths |-> "pdf"]
    /\ store = <<>>
    /\ formatter_output = NoOutput
    /\ outcome = NoOutcome
    /\ ingest = NoIngest
    /\ cleaning \in {[NoCleaning EXCEPT !.phase = "given", !.input = r] :
                        r \in ExtractionResults}
    /\ BenchIdle
    /\ ValidationIdle
    /\ ClassifierIdle

\* validate_and_clean_extracted_data(extracted_result), with what
\* _has_quantifiable_value answered for each point of the input
ValidateAndClean ==
    /\ cleaning.phase = "given"
    /\ cleaning' = [cleaning EXCEPT
          !.phase = "done",
          !.quantifiable = [i \in 1..Len(cleaning.input) |->
                               _has_quantifiable_value(cleaning.input[i].value)],
          !.output = validate_and_clean_extracted_data(cleaning.input)]
    /\ UNCHANGED <<serviceVars, formatter_output, outcome, ingest, benchVars,
                   validation, classifier>>

NextClean == ValidateAndClean

SpecClean == InitClean /\ [][NextClean]_vars

(***************************************************************************)
(* ml_training/training/load_training_model.py                             *)
(***************************************************************************)
\* calls of predict_category in one run of the model
MaxPredictions == 2

\* words in a short input text
MaxTextLen == 2

\* tokenizer max_length
MAX_LENGTH == 512

\* [CLS] and [SEP]
CLS_TOKEN == 101
SEP_TOKEN == 102

\* label_encoder.classes_
classes_ == <<"BIODIVERSITY AND ECOSYSTEMS", "CLIMATE AND EMISSIONS",
              "ENERGY AND TRANSITION", "NATURAL RESOURCES",
              "POLICIES AND REGULATION", "POLLUTION AND ENVIRONMENTAL QUALITY",
              "RISKS AND DISASTERS", "SOCIO-ECONOMIC IMPACT">>

Vocabulary == {7, 8}

\* input texts, as word sequences: every short text, the empty one included,
\* and two texts longer than the token limit that differ past it
LongText(last) ==
    [i \in 1..(MAX_LENGTH + 3) |-> IF i = MAX_LENGTH + 3 THEN last ELSE 7]

Texts == UNION {[1..n -> Vocabulary] : n \in 0..MaxTextLen}
            \cup {LongText(7), LongText(8)}

\* tokenizer(text, truncation=True, max_length=512): the input ids
Tokenize(text) == <<CLS_TOKEN>> \o Take(text, MAX_LENGTH - 2) \o <<SEP_TOKEN>>

\* model(**inputs).logits: one score per class, a fixed function of the
\* input ids (how many there are, where the second word of the vocabulary
\* stands) and of the weights the model was trained to
Logits(input_ids, weights) ==
    LET feature == Len(input_ids)
                   + 3 * Cardinality({i \in 1..Len(input_ids) : input_ids[i] = 8})
    IN  [j \in 1..Len(classes_) |->
            (feature * (j + weights) + j * weights) % 13]

\* torch.argmax(logits, dim=1).item(): the first index of the maximum, from 0
ArgMax(logits) ==
    (CHOOSE j \in 1..Len(logits) :
        /\ \A k \in 1..Len(logits) : logits[k] <= logits[j]
        /\ \A k \in 1..(j - 1) : logits[k] < logits[j]) - 1

\* mutant: the class index is read as starting from 1
inverse_transform_from_one(predicted_id) ==
    IF predicted_id \in 1..Len(classes_) THEN classes_[predicted_id]
    ELSE "ValueError"

\* label_encoder.inverse_transform([predicted_id])[0]
inverse_transform(predicted_id) == classes_[predicted_id + 1]

\* mutant: the model keeps state from one call to the next (it is left in
\* training mode), so the logits depend on the calls made before
predict_category_stateful(text, given, cls) ==
    IF ~given /\ ~cls.cached /\ ~cls.files
    THEN [text |-> text, given |-> given,
          exc |-> [type |-> "FileNotFoundError",
                   msg |-> [text |-> "model_folder_does_not_exist", len |-> 60]],
          input_ids |-> <<>>, logits |-> <<>>, category |-> "none"]
    ELSE LET input_ids == Tokenize(text)
             logits == Logits(input_ids, cls.weights + cls.predictions)
         IN  [text |-> text, given |-> given, exc |-> NoException,
              input_ids |-> input_ids, logits |-> logits,
              category |-> inverse_transform(ArgMax(logits))]

\* predict_category: given is TRUE when model, tokenizer and label encoder
\* are all passed in; otherwise the cached components are used, loaded from
\* disk on first use
predict_category(text, given, cls) ==
    IF ~given /\ ~cls.cached /\ ~cls.files
    THEN [text |-> text, given |-> given,
          exc |-> [type |-> "FileNotFoundError",
                   msg |-> [text |-> "model_folder_does_not_exist", len |-> 60]],
          input_ids |-> <<>>, logits |-> <<>>, category |-> "none"]
    ELSE LET input_ids == Tokenize(text)
             logits == Logits(input_ids, cls.weights)
         IN  [text |-> text, given |-> given, exc |-> NoException,
              input_ids |-> input_ids, logits |-> logits,
              category |-> inverse_transform(ArgMax(logits))]

InitClassifier ==
    /\ ServiceInit
    /\ fs = [p \in AbsPaths |-> "pdf"]
    /\ store = <<>>
    /\ StudyIdle
    /\ ValidationIdle
    /\ \E files \in BOOLEAN, weights \in 1..3 :
          classifier = [NoClassifier EXCEPT !.phase = "ready",
                                            !.files = files,
                                            !.weights = weights]

Predict(text, given) ==
    /\ classifier.phase = "ready"
    /\ classifier.predictions < MaxPredictions
    /\ LET r == predict_category(text, given, classifier)
           cached == classifier.cached \/ (~given /\ r.exc = NoException)
       IN  classifier' = [classifier EXCEPT
               !.last = r,
               !.predictions = @ + 1,
               !.cached = cached,
               !.log = Append(@, [text |-> text, given |-> given,
                                  exc |-> r.exc, category |-> r.category,
                                  weights |-> classifier.weights,
                                  cached_before |-> classifier.cached,
                                  cached_after |-> cached])]
    /\ UNCHANGED <<serviceVars, studyVars, validation>>

NextClassifier == \E text \in Texts, given \in BOOLEAN : Predict(text, given)

SpecClassifier == InitClassifier /\ [][NextClassifier]_vars

(***************************************************************************)
(* Claims                                                                  *)
(***************************************************************************)
\* position of the first occurrence of event e in the call history, 0 if none
Pos(e) ==
    IF \E i \in 1..Len(calls) : calls[i] = e
    THEN CHOOSE i \in 1..Len(calls) :
            calls[i] = e /\ \A j \in 1..(i - 1) : calls[j] # e
    ELSE 0

Called(e) == Pos(e) > 0

PipelineEvents == {"extraction.start", "llm.extraction", "extraction.end",
                   "extraction.raise", "summary.start", "llm.summary",
                   "llm.confidence", "classify", "summary.end", "summary.raise"}

\* C1: in every request, path resolution and indexing have completed before
\* process_document_for_data_extraction starts, data extraction has completed
\* before process_document_for_summary starts, and when path resolution or
\* indexing raised neither pipeline is invoked.
C1_PipelineOrder ==
    /\ Called("extraction.start") =>
          /\ Called("resolve.end") /\ Called("ingest.end")
          /\ Pos("resolve.end") < Pos("ingest.start")
          /\ Pos("ingest.end") < Pos("extraction.start")
    /\ Called("summary.start") =>
          /\ Called("extraction.end")
          /\ Pos("extraction.end") < Pos("summary.start")
    /\ (Called("resolve.raise") \/ Called("ingest.raise")) =>
          \A e \in PipelineEvents : ~Called(e)

\* a request ran indexing and both pipelines to the end
C1_Witness ==
    /\ pc = "idle" /\ served = 1
    /\ response.status = 200
    /\ Called("ingest.end") /\ Called("extraction.end") /\ Called("summary.end")
    /\ Pos("ingest.end") < Pos("extraction.start")
    /\ Pos("extraction.end") < Pos("summary.start")

\* the file the request names is not on disk
RequestedFileMissing == ~isfile(ResolvedPath(request.file_path))

\* C2: the endpoint answers 404 exactly when the requested file was not
\* found, and every other failure with 500 and "Analysis failed: <message>".
C2_StatusCodes ==
    (pc = "idle" /\ served > 0) =>
        /\ (response.status = 404) <=> RequestedFileMissing
        /\ (exc.type # "none" /\ ~RequestedFileMissing) =>
              /\ response.status = 500
              /\ response.prefix = "Analysis failed: "
              /\ response.detail = exc.msg

ContextChunks == SeqRange(retrieved_documents) \cup SeqRange(summary_documents)

\* C3: every chunk in the context of the extraction chain or of the summary
\* chain carries document_id = str(request.document_id), whatever the
\* collection holds.
C3_RetrievalFiltering ==
    \A c \in ContextChunks : c.document_id = IntToStr(request.document_id)

\* both contexts are built while the collection holds chunks of another document
C3_Witness ==
    /\ pc = "summary_invoke"
    /\ Len(retrieved_documents) > 0
    /\ Len(summary_documents) > 0
    /\ \E i \in 1..Len(store) :
          store[i].document_id # IntToStr(request.document_id)

\* C4: every data point process_document_for_data_extraction returns has
\* confidence_score >= MIN_CONFIDENCE_THRESHOLD_DATA.
C4_ConfidenceThreshold ==
    \A i \in 1..Len(outcome.data) :
        outcome.data[i].confidence_score >= MIN_CONFIDENCE_THRESHOLD_DATA

\* a point that passes every other rule but scores below the threshold is
\* dropped while its neighbour is returned
C4_Witness ==
    /\ pc = "extracted"
    /\ Len(formatter_output.points) = 2
    /\ formatter_output.points[1] = [GoodPoint EXCEPT !.conf = 29]
    /\ Len(outcome.data) = 1
    /\ outcome.data[1].confidence_score = 95

\* C5: whatever the formatting model outputs, the extraction either returns a
\* list or fails in a way the caller catches: it never raises.
C5_NeverRaises ==
    pc = "extracted" => (outcome.returned /\ outcome.exc = NoException)

\* C6: with a non-empty context the models run in the order summary,
\* confidence, classification, and the confidence chain and classify_summary
\* both receive the post-processed summary returned as textual_summary.
C6_SummaryOrder ==
    /\ Called("llm.confidence") =>
          /\ Called("llm.summary")
          /\ Pos("llm.summary") < Pos("llm.confidence")
          /\ confidence_input = post_process_summary(raw_summary)
    /\ Called("classify") =>
          /\ Called("llm.confidence")
          /\ Pos("llm.confidence") < Pos("classify")
          /\ classify_input = post_process_summary(raw_summary)
          /\ classify_input = confidence_input
          /\ summary_result.textual_summary = classify_input

\* a summary that post-processing changed went through all three steps
C6_Witness ==
    /\ pc = "monitor_exit"
    /\ Called("classify")
    /\ raw_summary # final_summary
    /\ summary_result.textual_summary = <<"W","a","t","e","r">>

\* C7: over any sequence of calls to get_embedding_model the embedding model
\* is constructed at most once.
C7_Singleton == embeddingLoads <= 1

\* C8: on leaving the monitored block success=1 is logged when no exception
\* was raised and success=0 with the truncated message otherwise; total
\* latency, every step latency and every collected metric are logged, the
\* run is ended and the exception is not suppressed.
C8_MonitorExit ==
    (pc = "respond" /\ monitor.started) =>
        /\ ~mlflow.active /\ mlflow.runs_ended = mlflow.runs_started
        /\ <<"metric", "success">> \in DOMAIN mlflow.metrics
        /\ mlflow.metrics[<<"metric", "success">>] =
              (IF monitor.error = NoMessage THEN 1 ELSE 0)
        /\ mlflow.error_logged <=> (monitor.error # NoMessage)
        /\ mlflow.error_logged =>
              /\ mlflow.error.text = monitor.error.text
              /\ mlflow.error.len <= ERROR_TRUNCATION
              /\ mlflow.error.len = monitor.error.len
                    \/ (monitor.error.len > ERROR_TRUNCATION
                        /\ mlflow.error.len = ERROR_TRUNCATION)
        /\ <<"metric", "total_latency_seconds">> \in DOMAIN mlflow.metrics
        /\ mlflow.metrics[<<"metric", "total_latency_seconds">>] =
              now - monitor.start_time
        /\ \A s \in DOMAIN monitor.step_times :
              /\ <<"latency", s>> \in DOMAIN mlflow.metrics
              /\ mlflow.metrics[<<"latency", s>>] = monitor.step_times[s]
        /\ \A m \in DOMAIN monitor.metrics :
              /\ <<"metric", m>> \in DOMAIN mlflow.metrics
              /\ mlflow.metrics[<<"metric", m>>] = monitor.metrics[m]
        /\ exc.msg = monitor.error
        /\ (monitor.error # NoMessage) => exc.type # "none"

\* the summary model failed with a message one character over the limit,
\* after steps and metrics of both pipelines had been recorded
C8_Witness ==
    /\ pc = "respond"
    /\ monitor.error.len = ERROR_TRUNCATION + 1
    /\ mlflow.error.len = ERROR_TRUNCATION
    /\ mlflow.metrics[<<"metric", "success">>] = 0
    /\ "summary_llm_invoke" \in DOMAIN monitor.step_times
    /\ "extracted_data_count" \in DOMAIN monitor.metrics


OkResults == {i \in 1..Len(validation.results) : validation.results[i].success}

\* C9: the validation script exits with 0 exactly when the average ROUGE-1,
\* the average ROUGE-L and the category accuracy of the run reach their
\* thresholds and no document failed, and with 1 otherwise.
C9_ExitCode ==
    validation.phase = "exited" =>
        LET n == Cardinality(OkResults)
            r1 == SumOf(SelectSeq(validation.results, LAMBDA r : r.success),
                        "rouge1_fmeasure")
            rL == SumOf(SelectSeq(validation.results, LAMBDA r : r.success),
                        "rougeL_fmeasure")
            ok == Cardinality({i \in OkResults :
                                  validation.results[i].category_correct})
            reached ==
                IF n = 0
                THEN /\ 0 >= validation.thresholds.rouge1_fmeasure
                     /\ 0 >= validation.thresholds.rougeL_fmeasure
                     /\ 0 >= validation.thresholds.category_accuracy
                ELSE /\ r1 >= validation.thresholds.rouge1_fmeasure * n
                     /\ rL >= validation.thresholds.rougeL_fmeasure * n
                     /\ 100 * ok >= validation.thresholds.category_accuracy * n
            none_failed == \A i \in 1..Len(validation.results) :
                                validation.results[i].success
        IN  /\ validation.exit_code \in {0, 1}
            /\ (validation.exit_code = 0) <=> (reached /\ none_failed)

\* a run of two documents passed with ROUGE-1 exactly at its threshold on
\* average
C9_Witness ==
    /\ validation.phase = "exited"
    /\ validation.exit_code = 0
    /\ Len(validation.results) = 2
    /\ validation.results[1].rouge1_fmeasure = 10
    /\ validation.results[2].rouge1_fmeasure = 40
    /\ validation.thresholds.rouge1_fmeasure = DEFAULT_ROUGE1


Returned == classifier.predictions > 0 /\ classifier.last.exc = NoException

\* C10: for every input text, the empty one and those over the token limit
\* included, predict_category returns a non-empty member of
\* label_encoder.classes_: the label at the index of the largest logit.
C10_PredictedLabel ==
    Returned =>
        LET logits == classifier.last.logits
            category == classifier.last.category
        IN  /\ category # ""
            /\ \E i \in 1..Len(classes_) :
                  /\ classes_[i] = category
                  /\ \A k \in 1..Len(logits) : logits[k] <= logits[i]
            /\ Len(classifier.last.input_ids) <= MAX_LENGTH

\* a text over the token limit was truncated and classified into a class
\* other than the first
C10_Witness ==
    /\ Returned
    /\ Len(classifier.last.text) > MAX_LENGTH
    /\ Len(classifier.last.input_ids) = MAX_LENGTH
    /\ classifier.last.category \in SeqRange(classes_) \ {classes_[1]}

\* the empty text was classified
C10_WitnessEmpty == Returned /\ classifier.last.text = <<>>

IngestedChunks == load_and_split_pdf(ingest.file_path, ingest.document_id)

\* C12: ingest_document_with_metadata returns normally only after every chunk
\* of the document, each tagged document_id = str(document_id), was added to
\* the vector store; it raises FileNotFoundError when nothing is at the path
\* and ValueError when no chunk could be created, and in both cases the
\* vector store is unchanged.
C12_IngestPostcondition ==
    ingest.calls > 0 =>
        /\ ingest.exc = NoException =>
              /\ Len(IngestedChunks) > 0
              /\ Len(store) = Len(ingest.store_before) + Len(IngestedChunks)
              /\ SubSeq(store, 1, Len(ingest.store_before)) = ingest.store_before
              /\ \A i \in 1..Len(IngestedChunks) :
                    LET c == store[Len(ingest.store_before) + i]
                    IN  /\ c.page = IngestedChunks[i].page
                        /\ c.head = IngestedChunks[i].head
                        /\ c.source_file = ingest.file_path
                        /\ c.document_id = IntToStr(ingest.document_id)
        /\ ~exists(ingest.file_path) <=> ingest.exc.type = "FileNotFoundError"
        /\ (exists(ingest.file_path) /\ Len(IngestedChunks) = 0)
              <=> ingest.exc.type = "ValueError"
        /\ ingest.exc.type \in {"FileNotFoundError", "ValueError"} =>
              store = ingest.store_before

\* a second document was indexed into a collection that held the first
C12_Witness ==
    /\ ingest.calls = 2
    /\ ingest.exc = NoException
    /\ Len(ingest.store_before) > 0
    /\ Len(store) > Len(ingest.store_before)
    /\ store[1].document_id # store[Len(store)].document_id

\* a call on an unreadable file raised ValueError and left the collection alone
C12_WitnessNoChunks ==
    /\ ingest.calls > 0
    /\ ingest.exc.type = "ValueError"
    /\ Len(store) > 0
    /\ store = ingest.store_before
\* the whole report as text: every page that has text, in page order, each
\* after its marker
RECURSIVE WholeReport(_, _)
WholeReport(pages, n) ==
    IF n > Len(pages) THEN <<>>
    ELSE IF HasText(pages[n])
         THEN <<[page |-> n, text |-> pages[n]]>> \o WholeReport(pages, n + 1)
         ELSE WholeReport(pages, n + 1)

\* C13: for a readable PDF extract_text_from_report returns the text of
\* every page that has text, in page order, each preceded by its page
\* marker; it returns None when the file is missing, when extraction raises,
\* or when the extracted text has fewer than 100 characters.
C13_WholeReportText ==
    report.phase = "read" =>
        LET whole == WholeReport(report.file.pages, 1)
            unreadable == report.file.state # "pdf"
            short == StrippedLen(whole) < MIN_TEXT_LENGTH
        IN  /\ report.result.kind = "None" <=> (unreadable \/ short)
            /\ report.result.kind = "str" => report.result.text = whole
\* C14: with TP the number of normalized facts common to reference and
\* generated output, precision * |generated| = TP and recall * |reference| =
\* TP, F1 is the harmonic mean of precision and recall, each of the three is
\* 0.0 when its denominator is 0, all lie in [0, 1], and a generated string
\* that is not JSON scores 0.0 throughout with is_valid_json = 0.0.
C14_ExtractionScores ==
    evaluation.phase = "scored" =>
        LET reference == normalize_data_keys(evaluation.reference)
            generated == normalize_data_keys(evaluation.generated.data)
            TP == Cardinality(reference \cap generated)
            P == evaluation.scores.extraction_precision
            R == evaluation.scores.extraction_recall
            F == evaluation.scores.extraction_f1
            One == Frac(1, 1)
        IN  /\ \A x \in {P, R, F} : x.d > 0 /\ FracLeq(Zero, x) /\ FracLeq(x, One)
            /\ IF ~evaluation.generated.valid
               THEN /\ FracEq(P, Zero) /\ FracEq(R, Zero) /\ FracEq(F, Zero)
                    /\ evaluation.scores.is_valid_json = 0
               ELSE /\ P.n * Cardinality(generated) = TP * P.d
                    /\ R.n * Cardinality(reference) = TP * R.d
                    /\ Cardinality(generated) = 0 => FracEq(P, Zero)
                    /\ Cardinality(reference) = 0 => FracEq(R, Zero)
                    /\ IF FracPositive(FracAdd(P, R))
                       THEN FracEq(FracMul(F, FracAdd(P, R)),
                                   FracMul(Frac(2, 1), FracMul(P, R)))
                       ELSE FracEq(F, Zero)

\* two generated facts, one of them in the reference after normalization,
\* against a reference of one fact: precision 1/2, recall 1, F1 2/3
C14_Witness ==
    /\ evaluation.phase = "scored"
    /\ evaluation.generated.valid
    /\ Cardinality(normalize_data_keys(evaluation.generated.data)) = 2
    /\ Cardinality(normalize_data_keys(evaluation.reference)) = 1
    /\ evaluation.generated.data.facts[1] # evaluation.reference.facts[1]
    /\ FracEq(evaluation.scores.extraction_precision, Frac(1, 2))
    /\ FracEq(evaluation.scores.extraction_recall, Frac(1, 1))
    /\ FracEq(evaluation.scores.extraction_f1, Frac(2, 3))
C16_QuantifiableValue ==
    cleaning.phase = "done" =>
        /\ \A i \in 1..Len(cleaning.input) :
              LET value == cleaning.input[i].value
              IN  /\ cleaning.quantifiable[i] <=> HasDigit(value)
                  /\ (\A k \in 1..Len(value) : value[k] \in Whitespace)
                        => ~cleaning.quantifiable[i]
                  /\ Strip(Lower(value)) \in no_data_patterns
                        => ~cleaning.quantifiable[i]
        /\ Len(cleaning.output)
              <= Cardinality({i \in 1..Len(cleaning.input) : cleaning.quantifiable[i]})
        /\ \A j \in 1..Len(cleaning.output) : HasDigit(cleaning.output[j].value)

\* ' N/A ' is dropped and ' $7% ' is kept, cleaned to '7'
C16_Witness ==
    /\ cleaning.phase = "done"
    /\ Len(cleaning.input) = 2
    /\ cleaning.input[1].value = <<" ","N","/","A"," ">>
    /\ cleaning.input[2].value = <<" ","$","7","%"," ">>
    /\ cleaning.quantifiable = <<FALSE, TRUE>>
    /\ Len(cleaning.output) = 1
    /\ cleaning.output[1].value = <<"7">>
\* the extraction query of the current call finds no chunk in the store
EmptyRetrieval ==
    Len(retrieve_context(store, 0, K_EXTRACTION,
                         FilterFor(request.document_id))) = 0

\* C17: when retrieval returns no chunk, process_document_for_data_extraction
\* returns [] at once: the extraction chain is not invoked, the PDF is not
\* read again, and a monitor records rag_chunks_retrieved = 0 and
\* rag_chunks_used = 0 but no extracted_data_count.
C17_EmptyRetrieval ==
    (Called("extraction.start") /\ EmptyRetrieval /\ exc # StoreError) =>
        /\ Called("extraction.end")
        /\ ~Called("extraction.raise")
        /\ pc = "direct_returned" \/ pc \notin {"direct_invoke", "direct_raised"}
        /\ extracted_data = <<>>
        /\ ~Called("llm.extraction")
        /\ ~Called("extraction.read_pdf")
        /\ Pos("extraction.end") = Pos("extraction.start") + 1
        /\ monitor # NoMonitor =>
              /\ "rag_chunks_retrieved" \in DOMAIN monitor.metrics
              /\ monitor.metrics["rag_chunks_retrieved"] = 0
              /\ "rag_chunks_used" \in DOMAIN monitor.metrics
              /\ monitor.metrics["rag_chunks_used"] = 0
              /\ "extracted_data_count" \notin DOMAIN monitor.metrics

\* a direct call with a monitor on a store that holds only the chunks of
\* another document has returned
C17_Witness ==
    /\ pc = "direct_returned"
    /\ EmptyRetrieval
    /\ Len(store) > 0
    /\ monitor # NoMonitor
    /\ monitor.metrics["rag_chunks_used"] = 0
    /\ extracted_data = <<>>

\* C18: when invoking the extraction chain raises,
\* process_document_for_data_extraction returns [] instead of raising, with
\* or without a monitor; a monitor still records the latency of step
\* 'extraction_llm_invoke', and the endpoint goes on to the summary pipeline.
C18_ChainErrorRecovered ==
    Called("llm.extraction.raise") =>
        /\ Called("extraction.end")
        /\ ~Called("extraction.raise")
        /\ extracted_data = <<>>
        /\ monitor # NoMonitor =>
              "extraction_llm_invoke" \in DOMAIN monitor.step_times
        /\ pc \in {"direct_retrieve", "direct_invoke", "direct_returned",
                    "direct_raised"}
              => pc = "direct_returned" /\ exc = NoException
        /\ pc \notin {"direct_retrieve", "direct_invoke", "direct_returned",
                       "direct_raised"}
              => pc = "summary_retrieve" \/ Called("summary.start")

\* the endpoint reached the summary model after the extraction chain raised
C18_Witness ==
    /\ Called("llm.extraction.raise")
    /\ Called("llm.summary")
    /\ "extraction_llm_invoke" \in DOMAIN monitor.step_times
    /\ extracted_data = <<>>

\* a direct call without a monitor returned after the chain raised
C18_WitnessNoMonitor ==
    /\ Called("llm.extraction.raise")
    /\ pc = "direct_returned"
    /\ monitor = NoMonitor

====
